---- MODULE Spec2Model ----
(***************************************************************************)
(* Model of src/3_more_routing.py: six HTTP handlers over the one shared   *)
(* dictionary `items`.  Each action handles one whole request: it draws    *)
(* the request's arguments, runs the handler on the current store and      *)
(* records the request and the response the client gets.                   *)
(*                                                                         *)
(* Representation.                                                          *)
(*  - An optional argument (str | None, ...) is a set: {} is None and {v}  *)
(*    is the value v.                                                       *)
(*  - Prices are floats written with two decimals in the source; they are  *)
(*    kept in cents (9.99 is 999), which preserves == on those literals.   *)
(*  - A dict or list of items in a response body is the mapping from the   *)
(*    store's key to the item; the iteration order of the dictionary is    *)
(*    not represented.                                                      *)
(*  - An exception that no handler catches (KeyError) is the framework's   *)
(*    500 response; a Path/Query constraint that fails is its 422.         *)
(***************************************************************************)
EXTENDS Integers, FiniteSets, Sequences, TLC

VARIABLES items, request, response

vars == <<items, request, response>>

\* Largest id a request names; ids are 0..MaxId.
MaxId == 2

ItemIds == 0..MaxId

None == {}

Some(v) == {v}

Val(x) == CHOOSE v \in x : TRUE

Opt(S) == {None} \cup {Some(v) : v \in S}

Category == {"tools", "consumables"}

\* The initial dictionary of the module.
InitialItems ==
    (0 :> [name |-> "Hammer", price |-> 999, count |-> 20, id |-> 0, category |-> "tools"])
 @@ (1 :> [name |-> "Pliers", price |-> 599, count |-> 20, id |-> 1, category |-> "tools"])
 @@ (2 :> [name |-> "Nails", price |-> 199, count |-> 100, id |-> 2, category |-> "consumables"])

\* Values the requests draw their arguments from.
ArgNames == {"Nails"}

ArgPrices == {199}

ArgCounts == {20}

\* Arguments of PUT /update that break a Path/Query constraint.
BadNames == {"Screwdriver"}

BadPrices == {0}

BadCounts == {-1}

BadIds == {-1}

\* Bodies of POST /.
Item == [name : ArgNames, price : ArgPrices, count : ArgCounts,
         id : ItemIds, category : Category]

NoItems == [k \in {} |-> 0]

Req(op, item_id, name, price, count, category, item) ==
    [op |-> op, item_id |-> item_id, name |-> name, price |-> price,
     count |-> count, category |-> category, item |-> item]

\* A response: the status code, the single item of the body (if any) and
\* the collection of items of the body (if any).
Resp(status, item, listing) ==
    [status |-> status, item |-> item, listing |-> listing]

\* What a handler leaves behind: the store and the response.
Out(store, resp) == [items |-> store, response |-> resp]

\* dict.pop(k) / del: the store without key k.
Without(store, k) == [j \in (DOMAIN store) \ {k} |-> store[j]]

\* items[k] = item
Put(store, k, item) == [j \in (DOMAIN store) \cup {k} |-> IF j = k THEN item ELSE store[j]]

----------------------------------------------------------------------------
\* GET /
index_handler(store) == Out(store, Resp(200, None, store))

\* Variant of query_item_by_id_handler that takes the item out of the store
\* (items.pop(item_id) for items[item_id]).
query_item_by_id_handler_pop(store, item_id) ==
    IF item_id \notin DOMAIN store
    THEN Out(store, Resp(500, None, NoItems))
    ELSE Out(Without(store, item_id), Resp(200, Some(store[item_id]), NoItems))

\* GET /items/{item_id}: the HTTPException of the not-found branch is built
\* and dropped, so a missing id reaches items[item_id] and raises KeyError.
query_item_by_id_handler(store, item_id) ==
    IF item_id \notin DOMAIN store
    THEN Out(store, Resp(500, None, NoItems))
    ELSE Out(store, Resp(200, Some(store[item_id]), NoItems))

\* check_item of query_item_by_parameters.
check_item(item, name, price, count, category) ==
    /\ (name = None \/ item.name = Val(name))
    /\ (price = None \/ item.price = Val(price))
    /\ (count = None \/ item.count # Val(count))
    /\ (category = None \/ item.category = Val(category))

\* GET /items/
query_item_by_parameters_handler(store, name, price, count, category) ==
    LET selection == {k \in DOMAIN store : check_item(store[k], name, price, count, category)}
    IN Out(store, Resp(200, None, [k \in selection |-> store[k]]))

\* Variant of add_item_handler that stores the item under the next free
\* position (items[len(items)] = item) instead of under item.id.
add_item_handler_len(store, item) ==
    Out(Put(store, Cardinality(DOMAIN store), item), Resp(200, Some(item), NoItems))

\* POST /: the HTTPException of the duplicate branch is built and dropped.
add_item_handler(store, item) ==
    Out(Put(store, item.id, item), Resp(200, Some(item), NoItems))

\* Path(ge=0), Query(min_length=1, max_length=8), Query(gt=0.0), Query(ge=0)
update_valid(item_id, name, price, count) ==
    /\ item_id >= 0
    /\ (name = None \/ (Len(Val(name)) >= 1 /\ Len(Val(name)) <= 8))
    /\ (price = None \/ Val(price) > 0)
    /\ (count = None \/ Val(count) >= 0)

\* Variant of update_fields whose count branch assigns item.price.
update_fields_slip(item, name, price, count) ==
    [item EXCEPT !.name = IF name # None THEN Val(name) ELSE @,
                 !.price = IF count # None THEN Val(count)
                           ELSE IF price # None THEN Val(price) ELSE @]

\* item.name = name, item.price = price, item.count = count, each if given.
update_fields(item, name, price, count) ==
    [item EXCEPT !.name = IF name # None THEN Val(name) ELSE @,
                 !.price = IF price # None THEN Val(price) ELSE @,
                 !.count = IF count # None THEN Val(count) ELSE @]

\* Variant of update_handler whose 400 is built and dropped like its 404.
update_handler_noraise(store, item_id, name, price, count) ==
    IF ~update_valid(item_id, name, price, count)
    THEN Out(store, Resp(422, None, NoItems))
    ELSE IF item_id \notin DOMAIN store
    THEN Out(store, Resp(500, None, NoItems))
    ELSE LET item == update_fields(store[item_id], name, price, count)
         IN Out(Put(store, item_id, item), Resp(200, Some(item), NoItems))

\* PUT /update/{item_id}: the 404 is built and dropped; the 400 is raised.
update_handler(store, item_id, name, price, count) ==
    IF ~update_valid(item_id, name, price, count)
    THEN Out(store, Resp(422, None, NoItems))
    ELSE IF name = None /\ price = None /\ count = None
    THEN Out(store, Resp(400, None, NoItems))
    ELSE IF item_id \notin DOMAIN store
    THEN Out(store, Resp(500, None, NoItems))
    ELSE LET item == update_fields(store[item_id], name, price, count)
         IN Out(Put(store, item_id, item), Resp(200, Some(item), NoItems))

\* Variant of delete_item_handler whose 404 is built and dropped, so that
\* items.pop raises KeyError.
delete_item_handler_noraise(store, item_id) ==
    IF item_id \notin DOMAIN store
    THEN Out(store, Resp(500, None, NoItems))
    ELSE Out(Without(store, item_id), Resp(200, Some(store[item_id]), NoItems))

\* Variant of delete_item_handler that reads the item without removing it
\* (items[item_id] for items.pop(item_id)).
delete_item_handler_keep(store, item_id) ==
    IF item_id \notin DOMAIN store
    THEN Out(store, Resp(404, None, NoItems))
    ELSE Out(store, Resp(200, Some(store[item_id]), NoItems))

\* DELETE /delete/{item_id}
delete_item_handler(store, item_id) ==
    IF item_id \notin DOMAIN store
    THEN Out(store, Resp(404, None, NoItems))
    ELSE Out(Without(store, item_id), Resp(200, Some(store[item_id]), NoItems))

----------------------------------------------------------------------------
Init ==
    /\ items = InitialItems
    /\ request = Req("none", None, None, None, None, None, None)
    /\ response = Resp(0, None, NoItems)

Handle(req, out) ==
    /\ request' = req
    /\ items' = out.items
    /\ response' = out.response

index ==
    Handle(Req("index", None, None, None, None, None, None), index_handler(items))

query_item_by_id ==
    \E item_id \in ItemIds :
        Handle(Req("query_item_by_id", Some(item_id), None, None, None, None, None),
               query_item_by_id_handler(items, item_id))

query_item_by_parameters ==
    \E name \in Opt(ArgNames), price \in Opt(ArgPrices),
       count \in Opt(ArgCounts), category \in Opt(Category) :
        Handle(Req("query_item_by_parameters", None, name, price, count, category, None),
               query_item_by_parameters_handler(items, name, price, count, category))

add_item ==
    \E item \in Item :
        Handle(Req("add_item", None, None, None, None, None, Some(item)),
               add_item_handler(items, item))

update ==
    \E item_id \in ItemIds \cup BadIds,
       name \in Opt(ArgNames \cup BadNames),
       price \in Opt(ArgPrices \cup BadPrices),
       count \in Opt(ArgCounts \cup BadCounts) :
        Handle(Req("update", Some(item_id), name, price, count, None, None),
               update_handler(items, item_id, name, price, count))

delete_item ==
    \E item_id \in ItemIds :
        Handle(Req("delete_item", Some(item_id), None, None, None, None, None),
               delete_item_handler(items, item_id))

Next ==
    \/ index
    \/ query_item_by_id
    \/ query_item_by_parameters
    \/ add_item
    \/ update
    \/ delete_item

Spec == Init /\ [][Next]_vars

----------------------------------------------------------------------------
\* Properties.  In an action formula the unprimed `items` is the store the
\* request meets and the primed variables are the request and its outcome.

ReadOps == {"index", "query_item_by_id", "query_item_by_parameters"}

\* The items a response body carries.
ResponseItems(resp) == resp.item \cup {resp.listing[k] : k \in DOMAIN resp.listing}

\* An item equals the query on every supplied field.
EqualOnSupplied(item, req) ==
    /\ (req.name # None => item.name = Val(req.name))
    /\ (req.price # None => item.price = Val(req.price))
    /\ (req.count # None => item.count = Val(req.count))
    /\ (req.category # None => item.category = Val(req.category))

NoneSupplied(req) == req.name = None /\ req.price = None /\ req.count = None

\* C1: GET /items/{item_id} with an item_id that is not a key of the store
\* ends in a 404 response carrying no item.
C1_MissingIdIs404 ==
    [][(request'.op = "query_item_by_id" /\ Val(request'.item_id) \notin DOMAIN items)
        => (response'.status = 404 /\ response'.item = None)]_vars

\* C2: POST / with an item whose id is already a key of the store ends in a
\* 400 response and leaves the store unchanged.
C2_DuplicateIdIs400 ==
    [][(request'.op = "add_item" /\ Val(request'.item).id \in DOMAIN items)
        => (response'.status = 400 /\ items' = items)]_vars

\* C3: PUT /update/{item_id} with an item_id that is not a key of the store
\* ends in a 404 response and leaves the store unchanged, whatever fields
\* are supplied.
C3_UpdateMissingIdIs404 ==
    [][(request'.op = "update" /\ Val(request'.item_id) \notin DOMAIN items)
        => (response'.status = 404 /\ items' = items)]_vars

\* C4: GET /items/ selects exactly the stored items that are equal to the
\* query on every supplied field.
C4_SelectionIsEqualOnSupplied ==
    [][request'.op = "query_item_by_parameters"
        => response'.listing =
             [k \in {j \in DOMAIN items : EqualOnSupplied(items[j], request')} |-> items[k]]]_vars

\* C5: PUT /update/{item_id} for a stored item_id with name, price and count
\* all None ends in a 400 response and leaves the store unchanged.
C5_UpdateNothingIs400 ==
    [][(/\ request'.op = "update"
        /\ Val(request'.item_id) \in DOMAIN items
        /\ NoneSupplied(request'))
        => (response'.status = 400 /\ items' = items)]_vars

C5_Witness ==
    /\ request.op = "update"
    /\ Val(request.item_id) \in DOMAIN items
    /\ NoneSupplied(request)
    /\ response.status = 400
    /\ items # InitialItems

\* C6: DELETE /delete/{item_id} with an item_id that is not a key of the
\* store ends in a 404 response and leaves the store unchanged.
C6_DeleteMissingIdIs404 ==
    [][(request'.op = "delete_item" /\ Val(request'.item_id) \notin DOMAIN items)
        => (response'.status = 404 /\ response'.item = None /\ items' = items)]_vars

C6_Witness ==
    /\ request.op = "delete_item"
    /\ Val(request.item_id) \notin DOMAIN items
    /\ response.status = 404
    /\ items # NoItems

\* C7: a successful PUT /update/{item_id} is one for a stored item_id with a
\* field supplied; it sets exactly the supplied fields of that item, keeps
\* its other fields, its id and its category, the keys of the store and
\* every other item, and responds with the item as changed.
C7_UpdateSetsSuppliedFieldsOnly ==
    [][(request'.op = "update" /\ response'.status = 200)
        => LET k == Val(request'.item_id)
           IN /\ k \in DOMAIN items
              /\ ~NoneSupplied(request')
              /\ DOMAIN items' = DOMAIN items
              /\ items'[k].name =
                   (IF request'.name # None THEN Val(request'.name) ELSE items[k].name)
              /\ items'[k].price =
                   (IF request'.price # None THEN Val(request'.price) ELSE items[k].price)
              /\ items'[k].count =
                   (IF request'.count # None THEN Val(request'.count) ELSE items[k].count)
              /\ items'[k].id = items[k].id
              /\ items'[k].category = items[k].category
              /\ \A j \in DOMAIN items : j # k => items'[j] = items[j]
              /\ response'.item = Some(items'[k])]_vars

\* An update of the count alone, on an item whose name and price differ from
\* the arguments the requests draw.
C7_Witness ==
    /\ request.op = "update"
    /\ response.status = 200
    /\ request.name = None /\ request.price = None /\ request.count = Some(20)
    /\ Val(request.item_id) = 2
    /\ items[2] = [InitialItems[2] EXCEPT !.count = 20]
    /\ response.item = Some(items[2])

\* C8: every key k of the store maps to a record whose id field is k.
C8_KeyIsItemId == \A k \in DOMAIN items : items[k].id = k

\* A posted item stored under a key that the store had given up or held
\* another record under.
C8_Witness ==
    /\ request.op = "add_item"
    /\ Val(request.item).id \in DOMAIN items
    /\ items[Val(request.item).id] = Val(request.item)
    /\ (Val(request.item).id \in DOMAIN InitialItems
          => items[Val(request.item).id] # InitialItems[Val(request.item).id])
    /\ request.item = response.item

\* C9: DELETE /delete/{item_id} of a stored item_id removes exactly that key,
\* returns the record stored under it and leaves every other entry as it
\* was; a key the store does not hold enters it only by a POST / of an item
\* with that id, and no GET response carries an item whose id the store
\* does not hold.
C9_DeletedStaysGoneUntilPost ==
    [][/\ (request'.op = "delete_item" /\ Val(request'.item_id) \in DOMAIN items)
          => /\ response'.status = 200
             /\ response'.item = Some(items[Val(request'.item_id)])
             /\ DOMAIN items' = (DOMAIN items) \ {Val(request'.item_id)}
             /\ \A j \in DOMAIN items' : items'[j] = items[j]
       /\ \A k \in (DOMAIN items') \ (DOMAIN items) :
             request'.op = "add_item" /\ Val(request'.item).id = k
       /\ request'.op \in ReadOps
          => \A it \in ResponseItems(response') : it.id \in DOMAIN items]_vars

\* The store after a delete of a stored key, with other entries left.
C9_Witness ==
    /\ request.op = "delete_item"
    /\ response.status = 200
    /\ Val(request.item_id) \notin DOMAIN items
    /\ Val(response.item).id = Val(request.item_id)
    /\ items # NoItems

\* C10: GET /, GET /items/{item_id} and GET /items/ leave the store as it
\* was, whether they succeed or fail.
C10_ReadsKeepStore ==
    [][request'.op \in ReadOps => items' = items]_vars

\* A failed and a successful read of a store that is no longer the initial one.
C10_Witness ==
    /\ request.op = "query_item_by_id"
    /\ response.status = 500
    /\ items # InitialItems
    /\ items # NoItems
====
